---- MODULE Spec2Model ----
(***************************************************************************)
(* Halo Occupation Distribution classes of halomod (src/halomod/hod.py).   *)
(*                                                                         *)
(* An instance is a class name, the stored flag _central and the params    *)
(* dictionary; every method is a pure function of the instance and a halo  *)
(* mass m.  Numbers are numpy float64 values modelled as decimal floating  *)
(* point numbers n * 10^e with a significand of MantissaDigits digits,     *)
(* round-half-even, the float64 overflow and underflow limits, and the     *)
(* IEEE special values inf, -inf and nan (zero carries no sign).  Two      *)
(* values are equal when they are the same datum, nan included.            *)
(***************************************************************************)
EXTENDS Integers, Sequences, FiniteSets, TLC

(***************************************************************************)
(* numpy float64 arithmetic                                                *)
(***************************************************************************)
MantissaDigits == 4
MaxExp10 == 308
MinExp10 == -324
MaxMantissa == 1798

Abs(i) == IF i < 0 THEN -i ELSE i
Sgn(i) == IF i < 0 THEN -1 ELSE IF i > 0 THEN 1 ELSE 0
Min(i, j) == IF i < j THEN i ELSE j

RECURSIVE NumDigits(_)
NumDigits(i) == IF i < 10 THEN 1 ELSE 1 + NumDigits(i \div 10)

Fin(n, e) == [k |-> "fin", n |-> n, e |-> e]
Inf(s) == [k |-> "inf", n |-> s, e |-> 0]
NaN == [k |-> "nan", n |-> 0, e |-> 0]
None == [k |-> "none", n |-> 0, e |-> 0]
Zero == Fin(0, 0)
One == Fin(1, 0)

IsNaN(v) == v.k = "nan"
IsInf(v) == v.k = "inf"
IsFin(v) == v.k = "fin"
IsZero(v) == v = Zero

\* the canonical float of n * 10^e for |n| < 10^MantissaDigits: trailing
\* zeros of n moved to the exponent, overflow to inf, underflow to zero
RECURSIVE Canon(_, _)
Canon(n, e) ==
    IF n = 0 THEN Zero
    ELSE IF n % 10 = 0 THEN Canon(n \div 10, e + 1)
    ELSE LET dg == NumDigits(Abs(n))
             top == e + dg - 1
             lead == Abs(n) * 10 ^ (MantissaDigits - dg)
         IN  IF top > MaxExp10 \/ (top = MaxExp10 /\ lead >= MaxMantissa)
             THEN Inf(Sgn(n))
             ELSE IF top < MinExp10 THEN Zero
             ELSE Fin(n, e)

\* n * 10^e (plus a non-zero remainder below the last digit when sticky)
\* rounded to MantissaDigits significant digits, ties to even
Round(n, e, sticky) ==
    LET a == Abs(n)
        dg == NumDigits(a)
        drop == IF dg <= MantissaDigits THEN 0 ELSE dg - MantissaDigits
        q == a \div (10 ^ drop)
        r == a % (10 ^ drop)
        half == IF drop = 0 THEN 1 ELSE 5 * 10 ^ (drop - 1)
        up == r > half \/ (r = half /\ (sticky \/ q % 2 = 1))
    IN  Canon(Sgn(n) * (IF up THEN q + 1 ELSE q), e + drop)

\* the significand of a non-zero finite v scaled to exactly MantissaDigits
\* digits, and the matching exponent
FullN(v) == v.n * 10 ^ (MantissaDigits - NumDigits(Abs(v.n)))
FullE(v) == v.e - (MantissaDigits - NumDigits(Abs(v.n)))

FromInt(i) == Round(i, 0, FALSE)
\* the integer value of an integer-valued finite float
ToInt(v) == v.n * 10 ^ v.e

\* Every operation below binds its operands (a \in {x}) before it uses
\* them, so that an operand expression is evaluated once.
Neg(x) ==
    CHOOSE r \in {IF IsFin(a) THEN Fin(-a.n, a.e)
                  ELSE IF IsInf(a) THEN Inf(-a.n)
                  ELSE NaN : a \in {x}} : TRUE

AddFin(a, b) ==
    LET na == FullN(a)
        ea == FullE(a)
        nb == FullN(b)
        eb == FullE(b)
        lo == Min(ea, eb)
    IN  IF ea - eb > MantissaDigits + 1 THEN a
        ELSE IF eb - ea > MantissaDigits + 1 THEN b
        ELSE Round(na * 10 ^ (ea - lo) + nb * 10 ^ (eb - lo), lo, FALSE)

Add(x, y) ==
    CHOOSE r \in {IF IsNaN(a) \/ IsNaN(b) THEN NaN
                  ELSE IF IsInf(a) /\ IsInf(b) THEN (IF a.n = b.n THEN a ELSE NaN)
                  ELSE IF IsInf(a) THEN a
                  ELSE IF IsInf(b) THEN b
                  ELSE IF a.n = 0 THEN b
                  ELSE IF b.n = 0 THEN a
                  ELSE AddFin(a, b) : a \in {x}, b \in {y}} : TRUE

Sub(x, y) == Add(x, Neg(y))

Mul(x, y) ==
    CHOOSE r \in {IF IsNaN(a) \/ IsNaN(b) THEN NaN
                  ELSE IF IsInf(a) \/ IsInf(b)
                       THEN (IF a.n = 0 \/ b.n = 0 THEN NaN
                             ELSE Inf(Sgn(a.n) * Sgn(b.n)))
                  ELSE Round(a.n * b.n, a.e + b.e, FALSE) : a \in {x}, b \in {y}} : TRUE

DivFin(a, b) ==
    LET num == Abs(FullN(a)) * 10 ^ (MantissaDigits + 1)
        den == Abs(b.n)
    IN  Round(Sgn(a.n) * Sgn(b.n) * (num \div den),
              FullE(a) - (MantissaDigits + 1) - b.e,
              num % den # 0)

Div(x, y) ==
    CHOOSE r \in {IF IsNaN(a) \/ IsNaN(b) THEN NaN
                  ELSE IF IsInf(a) /\ IsInf(b) THEN NaN
                  ELSE IF IsInf(a) THEN Inf(IF b.n < 0 THEN -a.n ELSE a.n)
                  ELSE IF IsInf(b) THEN Zero
                  ELSE IF b.n = 0 THEN (IF a.n = 0 THEN NaN ELSE Inf(Sgn(a.n)))
                  ELSE IF a.n = 0 THEN Zero
                  ELSE DivFin(a, b) : a \in {x}, b \in {y}} : TRUE

\* the order of two values that are not nan: -1, 0 or 1 as a is below,
\* equal to or above b
Cmp(a, b) ==
    IF a = b THEN 0
    ELSE IF IsInf(a) THEN a.n
    ELSE IF IsInf(b) THEN -b.n
    ELSE IF Sgn(a.n) # Sgn(b.n) THEN (IF a.n < b.n THEN -1 ELSE 1)
    ELSE IF FullE(a) # FullE(b)
         THEN (IF FullE(a) < FullE(b) THEN -Sgn(a.n) ELSE Sgn(a.n))
    ELSE IF FullN(a) < FullN(b) THEN -1 ELSE 1

\* comparisons with nan are false
Lt(x, y) == \E a \in {x}, b \in {y} : ~IsNaN(a) /\ ~IsNaN(b) /\ Cmp(a, b) < 0
Le(x, y) == \E a \in {x}, b \in {y} : ~IsNaN(a) /\ ~IsNaN(b) /\ Cmp(a, b) <= 0
Gt(x, y) == Lt(y, x)
Ge(x, y) == Le(y, x)

\* a ** k for a non-negative integer k
RECURSIVE PowInt(_, _)
PowInt(x, k) ==
    CHOOSE r \in {IF k = 0 THEN One ELSE Mul(a, PowInt(a, k - 1)) : a \in {x}} : TRUE

\* a ** p for an integer-valued float p >= 0
Pow(x, p) == PowInt(x, ToInt(p))

\* 10 ** p for an integer-valued float p
Pow10(p) == IF p.n = 0 THEN One ELSE Canon(1, ToInt(p))

\* np.log10 on the powers of ten
Log10(x) ==
    CHOOSE r \in {IF IsNaN(v) THEN NaN
                  ELSE IF IsInf(v) THEN (IF v.n > 0 THEN v ELSE NaN)
                  ELSE IF v.n = 0 THEN Inf(-1)
                  ELSE IF v.n < 0 THEN NaN
                  ELSE CASE v.n = 1 -> FromInt(v.e) : v \in {x}} : TRUE

\* scipy.special.erf: odd, saturated to +-1 from ErfSaturation on, and
\* tabulated to MantissaDigits digits in between
ErfSaturation == 6
ErfTable(a) ==
    CASE a = Fin(25, -2) -> Fin(2763, -4)
      [] a = Fin(5, -1) -> Fin(5205, -4)
      [] a = Fin(1, 0) -> Fin(8427, -4)
      [] a = Fin(15, -1) -> Fin(9661, -4)
      [] a = Fin(2, 0) -> Fin(9953, -4)

ErfFin(v) ==
    LET a == Fin(Abs(v.n), v.e)
    IN  IF Ge(a, Fin(ErfSaturation, 0)) THEN Fin(Sgn(v.n), 0)
        ELSE IF v.n < 0 THEN Neg(ErfTable(a)) ELSE ErfTable(a)

Erf(x) ==
    CHOOSE r \in {IF IsNaN(v) THEN NaN
                  ELSE IF IsInf(v) THEN Fin(v.n, 0)
                  ELSE IF v.n = 0 THEN Zero
                  ELSE ErfFin(v) : v \in {x}} : TRUE

\* np.exp: inf above ln(DBL_MAX), 0 below ln(min subnormal), otherwise the
\* degree-5 Taylor sum on [-1/2, 1/2] combined with repeated squaring
ExpOverflow == Fin(7098, -1)
ExpUnderflow == Fin(-7451, -1)
Half == Fin(5, -1)

\* 1 + x/k * (1 + x/(k+1) * (... (1 + x/ExpTerms)))
ExpTerms == 5
RECURSIVE ExpSeries(_, _)
ExpSeries(x, k) ==
    IF k > ExpTerms THEN One
    ELSE Add(One, Mul(Div(x, Fin(k, 0)), ExpSeries(x, k + 1)))

RECURSIVE ExpFin(_)
ExpFin(x) ==
    IF Le(Fin(Abs(x.n), x.e), Half) THEN ExpSeries(x, 1)
    ELSE CHOOSE r \in {Mul(h, h) : h \in {ExpFin(Div(x, Fin(2, 0)))}} : TRUE

Exp(x) ==
    CHOOSE r \in {IF IsNaN(v) THEN NaN
                  ELSE IF IsInf(v) THEN (IF v.n > 0 THEN v ELSE Zero)
                  ELSE IF Gt(v, ExpOverflow) THEN Inf(1)
                  ELSE IF Lt(v, ExpUnderflow) THEN Zero
                  ELSE ExpFin(v) : v \in {x}} : TRUE

\* np.sqrt, kept exact: the non-negative root of the radicand n * 10^e
Sqrt(x) ==
    CHOOSE r \in {IF IsNaN(v) THEN NaN
                  ELSE IF IsInf(v) THEN (IF v.n > 0 THEN v ELSE NaN)
                  ELSE IF v.n < 0 THEN NaN
                  ELSE [k |-> "root", n |-> v.n, e |-> v.e] : v \in {x}} : TRUE

\* v ** 2
Square(x) ==
    CHOOSE r \in {IF v.k = "root" THEN Fin(v.n, v.e) ELSE Mul(v, v) : v \in {x}} : TRUE

(***************************************************************************)
(* Classes                                                                 *)
(***************************************************************************)
PoissonClasses ==
    {"Zehavi05", "Zheng05", "Contreras13", "Geach12", "Tinker05",
     "Zehavi05WithMax", "Zehavi05Marked"}
NoCentralClasses == {"ContinuousPowerLaw", "Constant"}
Classes == PoissonClasses \cup NoCentralClasses

central_condition_inherent(c) == c = "Tinker05"
sharp_cut(c) == c \in {"Zehavi05", "Tinker05", "Zehavi05WithMax",
                       "Zehavi05Marked", "ContinuousPowerLaw"}

(***************************************************************************)
(* Inputs: halo masses and model parameters.  Masses are powers of ten and *)
(* the logarithmic mass parameters and the power-law index are integers,   *)
(* so that 10 ** p, log10 and ** are exact; the caller overrides every key *)
(* of _defaults.                                                           *)
(***************************************************************************)
MaxLogMass == 2
MaxAlpha == 2
MaxLogA == 1
MaxLogMmax == 2
MaxLogMcut == 5

Masses == {Pow10(FromInt(l)) : l \in 0..MaxLogMass}
MminValues == {One, Fin(2, 0)}
M1Values == {One}
AlphaValues == {FromInt(a) : a \in 1..MaxAlpha}
M0Values == {Zero, One}
SigLogmValues == {One, Fin(625, -4)}
FcbValues == {Zero, One}
XValues == {One, Fin(2, 0)}
McutValues == {Zero, FromInt(MaxLogMcut)}
MmaxValues == {FromInt(a) : a \in 1..MaxLogMmax}
LogAValues == {FromInt(a) : a \in (-1)..MaxLogA}
SigmaAValues == {Zero, One}

Contreras13Params ==
    [M_min : MminValues, M_1 : M1Values, alpha : {One}, M_0 : {Zero},
     sig_logm : SigLogmValues, fca : {Half}, fcb : FcbValues, fs : {One},
     delta : {One}, x : XValues]

ParamSets(c) ==
    CASE c = "Zehavi05" ->
           [M_min : MminValues, M_1 : M1Values, alpha : AlphaValues]
      [] c = "Zheng05" ->
           [M_min : MminValues, M_1 : M1Values, alpha : AlphaValues,
            M_0 : M0Values, sig_logm : SigLogmValues]
      [] c = "Contreras13" -> Contreras13Params
      [] c = "Geach12" -> Contreras13Params
      [] c = "Tinker05" ->
           [M_min : MminValues, M_1 : M1Values, M_cut : McutValues]
      [] c = "Zehavi05WithMax" ->
           [M_min : MminValues, M_1 : M1Values, alpha : AlphaValues,
            M_max : MmaxValues]
      [] c = "Zehavi05Marked" ->
           [M_min : {One}, M_1 : M1Values, logA : LogAValues,
            alpha : AlphaValues, M_max : MmaxValues]
      [] c = "ContinuousPowerLaw" ->
           [M_min : {One}, M_1 : M1Values, logA : LogAValues,
            alpha : {One}, M_max : MmaxValues, sigma_A : SigmaAValues]
      [] c = "Constant" ->
           [logA : LogAValues, M_min : {One}, sigma_A : SigmaAValues]

(***************************************************************************)
(* Construction                                                            *)
(***************************************************************************)
HOD___init__(c, central_, model_parameters) ==
    [cls |-> c, _central |-> central_, params |-> model_parameters]

HODNoCentral___init___keeps_flag(c, central_, model_parameters) ==
    HOD___init__(c, central_, model_parameters)

HODNoCentral___init__(c, central_, model_parameters) ==
    [HOD___init__(c, central_, model_parameters) EXCEPT !._central = FALSE]

__init__(c, central_, model_parameters) ==
    IF c \in NoCentralClasses
    THEN HODNoCentral___init__(c, central_, model_parameters)
    ELSE HOD___init__(c, central_, model_parameters)

(***************************************************************************)
(* Raw central occupations                                                 *)
(***************************************************************************)
Zehavi05__central_occupation(self, m) ==
    IF Lt(m, Pow10(self.params.M_min)) THEN Zero ELSE One

Zheng05__central_occupation(self, m) ==
    Mul(Half,
        Add(One, Erf(Div(Sub(Log10(m), self.params.M_min),
                         self.params.sig_logm))))

Contreras13__central_occupation(self, m) ==
    LET p == self.params
        lg == Log10(Div(m, Pow10(p.M_min)))
        gauss == Exp(Div(Neg(PowInt(lg, 2)),
                         Mul(Fin(2, 0), PowInt(Mul(p.x, p.sig_logm), 2))))
        ramp == Add(One, Erf(Div(Div(lg, p.x), p.sig_logm)))
    IN  Add(Mul(Mul(p.fcb, Sub(One, p.fca)), gauss), Mul(p.fca, ramp))

Zehavi05WithMax__central_occupation(self, m) ==
    IF Ge(m, Pow10(self.params.M_min)) /\ Le(m, Pow10(self.params.M_max))
    THEN One ELSE Zero

Zehavi05Marked__tracer_per_central(self, m) == Pow10(self.params.logA)

_tracer_per_central(self, m) ==
    CASE self.cls = "Zehavi05Marked" -> Zehavi05Marked__tracer_per_central(self, m)
      [] self.cls \in PoissonClasses \ {"Zehavi05Marked"} -> One

_tracer_per_satellite_unit(self, m) == One

_tracer_per_satellite(self, m) ==
    CASE self.cls \in PoissonClasses -> _tracer_per_central(self, m)

Zehavi05Marked__central_occupation(self, m) ==
    Mul(Zehavi05WithMax__central_occupation(self, m), _tracer_per_central(self, m))

HODNoCentral__central_occupation(self, m) == Zero

_central_occupation(self, m) ==
    CASE self.cls \in {"Zehavi05", "Tinker05"} -> Zehavi05__central_occupation(self, m)
      [] self.cls = "Zheng05" -> Zheng05__central_occupation(self, m)
      [] self.cls \in {"Contreras13", "Geach12"} -> Contreras13__central_occupation(self, m)
      [] self.cls = "Zehavi05WithMax" -> Zehavi05WithMax__central_occupation(self, m)
      [] self.cls = "Zehavi05Marked" -> Zehavi05Marked__central_occupation(self, m)
      [] self.cls \in NoCentralClasses -> HODNoCentral__central_occupation(self, m)

central_occupation(self, m) == _central_occupation(self, m)

HODPoisson_nc(self, m) ==
    Div(central_occupation(self, m), _tracer_per_central(self, m))

HODNoCentral_nc(self, m) == Zero

nc(self, m) ==
    IF self.cls \in NoCentralClasses THEN HODNoCentral_nc(self, m)
    ELSE HODPoisson_nc(self, m)

(***************************************************************************)
(* Raw satellite occupations                                               *)
(***************************************************************************)
Zehavi05__satellite_occupation(self, m) ==
    Pow(Div(m, Pow10(self.params.M_1)), self.params.alpha)

Zheng05__satellite_occupation(self, m) ==
    IF Gt(m, Pow10(self.params.M_0))
    THEN Pow(Div(Sub(m, Pow10(self.params.M_0)), Pow10(self.params.M_1)),
             self.params.alpha)
    ELSE Zero

Contreras13__satellite_occupation(self, m) ==
    LET p == self.params
        r == Div(m, Pow10(p.M_1))
    IN  Mul(Mul(p.fs, Add(One, Erf(Div(Log10(r), p.delta)))), Pow(r, p.alpha))

Tinker05__satellite_occupation_without_central(self, m) ==
    Mul(Exp(Div(Neg(Pow10(self.params.M_cut)),
                Sub(m, Pow10(self.params.M_min)))),
        Div(m, Pow10(self.params.M_1)))

Tinker05__satellite_occupation(self, m) ==
    LET out == central_occupation(self, m)
    IN  Mul(Mul(out,
                Exp(Div(Neg(Pow10(self.params.M_cut)),
                        Sub(m, Pow10(self.params.M_min))))),
            Div(m, Pow10(self.params.M_1)))

Zehavi05WithMax__satellite_occupation(self, m) ==
    Pow(Div(m, Pow10(self.params.M_1)), self.params.alpha)

Zehavi05Marked__satellite_occupation(self, m) ==
    Mul(Zehavi05WithMax__satellite_occupation(self, m), _tracer_per_satellite(self, m))

ContinuousPowerLaw__satellite_occupation(self, m) ==
    LET alpha == self.params.alpha
        M_1 == Pow10(self.params.M_1)
        A == Pow10(self.params.logA)
        M_min == Pow10(self.params.M_min)
        M_max == Pow10(self.params.M_max)
    IN  IF Ge(m, M_min) /\ Le(m, M_max)
        THEN Mul(A, Add(Pow(Div(m, M_1), alpha), One))
        ELSE Zero

Constant__satellite_occupation(self, m) ==
    IF Gt(m, Pow10(self.params.M_min)) THEN Pow10(self.params.logA) ELSE Zero

_satellite_occupation(self, m) ==
    CASE self.cls = "Zehavi05" -> Zehavi05__satellite_occupation(self, m)
      [] self.cls = "Zheng05" -> Zheng05__satellite_occupation(self, m)
      [] self.cls \in {"Contreras13", "Geach12"} -> Contreras13__satellite_occupation(self, m)
      [] self.cls = "Tinker05" -> Tinker05__satellite_occupation(self, m)
      [] self.cls = "Zehavi05WithMax" -> Zehavi05WithMax__satellite_occupation(self, m)
      [] self.cls = "Zehavi05Marked" -> Zehavi05Marked__satellite_occupation(self, m)
      [] self.cls = "ContinuousPowerLaw" -> ContinuousPowerLaw__satellite_occupation(self, m)
      [] self.cls = "Constant" -> Constant__satellite_occupation(self, m)

(***************************************************************************)
(* Composition (HOD) and the mixins                                        *)
(***************************************************************************)
satellite_occupation_unconditioned(self, m) == _satellite_occupation(self, m)

satellite_occupation(self, m) ==
    CHOOSE r \in
      {IF self._central /\ ~central_condition_inherent(self.cls)
       THEN Mul(nc(self, m), raw)
       ELSE raw : raw \in {_satellite_occupation(self, m)}} : TRUE

total_occupation_raw_satellite(self, m) ==
    Add(central_occupation(self, m), _satellite_occupation(self, m))

total_occupation(self, m) ==
    Add(central_occupation(self, m), satellite_occupation(self, m))

HODPoisson_ns(self, m) ==
    Div(satellite_occupation(self, m), _tracer_per_satellite(self, m))

HODBulk_ns(self, m) == Zero

ns(self, m) ==
    IF self.cls \in NoCentralClasses THEN HODBulk_ns(self, m)
    ELSE HODPoisson_ns(self, m)

ss_pairs(self, m) == PowInt(satellite_occupation(self, m), 2)

HODPoisson_cs_pairs_independent(self, m) ==
    Mul(central_occupation(self, m), satellite_occupation(self, m))

HODPoisson_cs_pairs(self, m) ==
    CHOOSE r \in
      {IF self._central
       THEN Mul(so, _tracer_per_central(self, m))
       ELSE Mul(central_occupation(self, m), so) :
         so \in {satellite_occupation(self, m)}} : TRUE

HODNoCentral_cs_pairs(self, m) == Zero

cs_pairs(self, m) ==
    IF self.cls \in NoCentralClasses THEN HODNoCentral_cs_pairs(self, m)
    ELSE HODPoisson_cs_pairs(self, m)

total_pair_function(self, m) == Add(ss_pairs(self, m), cs_pairs(self, m))

HODPoisson_sigma_central_poisson(self, m) ==
    Sqrt(central_occupation(self, m))

HODPoisson_sigma_central(self, m) ==
    LET co == central_occupation(self, m)
    IN  Sqrt(Mul(co, Sub(One, co)))

Zehavi05Marked_sigma_central(self, m) ==
    LET co == Zehavi05WithMax__central_occupation(self, m)
    IN  Sqrt(Mul(Mul(_tracer_per_central(self, m), co), Sub(One, co)))

HODNoCentral_sigma_central(self, m) == Zero

sigma_central(self, m) ==
    CASE self.cls \in NoCentralClasses -> HODNoCentral_sigma_central(self, m)
      [] self.cls = "Zehavi05Marked" -> Zehavi05Marked_sigma_central(self, m)
      [] self.cls \in PoissonClasses \ {"Zehavi05Marked"} -> HODPoisson_sigma_central(self, m)

HODPoisson_sigma_satellite(self, m) == Sqrt(satellite_occupation(self, m))

HODBulk_sigma_satellite(self, m) == Mul(One, self.params.sigma_A)

sigma_satellite(self, m) ==
    IF self.cls \in NoCentralClasses THEN HODBulk_sigma_satellite(self, m)
    ELSE HODPoisson_sigma_satellite(self, m)

unit_conversion(self) == One

HOD_mmin(self) == self.params.M_min

Zheng05_mmin(self) ==
    Sub(self.params.M_min, Mul(Fin(5, 0), self.params.sig_logm))

mmin(self) ==
    IF self.cls = "Zheng05" THEN Zheng05_mmin(self) ELSE HOD_mmin(self)

(***************************************************************************)
(* The instance and the call in progress on it: op is "ready" between     *)
(* calls, and otherwise the method that has computed ret for the mass m    *)
(* and is about to hand it to the caller                                   *)
(***************************************************************************)
VARIABLES cls, central, _central, params, op, m, ret

vars == <<cls, central, _central, params, op, m, ret>>

self == [cls |-> cls, _central |-> _central, params |-> params]

Init ==
    \E c \in Classes, central_ \in BOOLEAN :
      \E model_parameters \in ParamSets(c) :
        LET new == __init__(c, central_, model_parameters)
        IN  /\ cls = new.cls
            /\ central = central_
            /\ _central = new._central
            /\ params = new.params
            /\ op = "ready"
            /\ m = None
            /\ ret = None

Call(name, mass, value) ==
    /\ op = "ready"
    /\ op' = name
    /\ m' = mass
    /\ ret' = value
    /\ UNCHANGED <<cls, central, _central, params>>

Call_central_occupation ==
    \E mass \in Masses : Call("central_occupation", mass, central_occupation(self, mass))
Call_satellite_occupation ==
    \E mass \in Masses : Call("satellite_occupation", mass, satellite_occupation(self, mass))
Call_total_occupation ==
    \E mass \in Masses : Call("total_occupation", mass, total_occupation(self, mass))
Call_total_pair_function ==
    \E mass \in Masses : Call("total_pair_function", mass, total_pair_function(self, mass))
Call_nc ==
    \E mass \in Masses : Call("nc", mass, nc(self, mass))
Call_ns ==
    \E mass \in Masses : Call("ns", mass, ns(self, mass))
Call_ss_pairs ==
    \E mass \in Masses : Call("ss_pairs", mass, ss_pairs(self, mass))
Call_cs_pairs ==
    \E mass \in Masses : Call("cs_pairs", mass, cs_pairs(self, mass))
Call_sigma_central ==
    \E mass \in Masses : Call("sigma_central", mass, sigma_central(self, mass))
Call_sigma_satellite ==
    \E mass \in Masses : Call("sigma_satellite", mass, sigma_satellite(self, mass))
Call_unit_conversion == Call("unit_conversion", None, unit_conversion(self))
Call_mmin == Call("mmin", None, mmin(self))

Return ==
    /\ op # "ready"
    /\ op' = "ready"
    /\ m' = None
    /\ ret' = None
    /\ UNCHANGED <<cls, central, _central, params>>

Next ==
    \/ Call_central_occupation
    \/ Call_satellite_occupation
    \/ Call_total_occupation
    \/ Call_total_pair_function
    \/ Call_nc
    \/ Call_ns
    \/ Call_ss_pairs
    \/ Call_cs_pairs
    \/ Call_sigma_central
    \/ Call_sigma_satellite
    \/ Call_unit_conversion
    \/ Call_mmin
    \/ Return

Spec == Init /\ [][Next]_vars

(***************************************************************************)
(* Properties                                                              *)
(***************************************************************************)
\* the public method called name, on the instance s at mass
Method(name, s, mass) ==
    CASE name = "central_occupation" -> central_occupation(s, mass)
      [] name = "satellite_occupation" -> satellite_occupation(s, mass)
      [] name = "total_occupation" -> total_occupation(s, mass)
      [] name = "total_pair_function" -> total_pair_function(s, mass)
      [] name = "nc" -> nc(s, mass)
      [] name = "ns" -> ns(s, mass)
      [] name = "ss_pairs" -> ss_pairs(s, mass)
      [] name = "cs_pairs" -> cs_pairs(s, mass)

InUnit(v) == Le(Zero, v) /\ Le(v, One)

\* C1: satellite_occupation(m) is nc(m) * _satellite_occupation(m) when
\* the instance's flag is set and the class is not central_condition_inherent,
\* and _satellite_occupation(m) unchanged in the three other combinations.
C1_SatelliteOccupationRule ==
    op = "satellite_occupation" =>
      ret = IF _central /\ ~central_condition_inherent(cls)
            THEN Mul(nc(self, m), _satellite_occupation(self, m))
            ELSE _satellite_occupation(self, m)

C1_Witness ==
    /\ op = "satellite_occupation"
    /\ _central
    /\ ~central_condition_inherent(cls)
    /\ ret = Mul(nc(self, m), _satellite_occupation(self, m))
    /\ ret # _satellite_occupation(self, m)

\* C2: zero law.  When the flag is set or the class is
\* central_condition_inherent, central_occupation(m) == 0 implies
\* satellite_occupation(m) == 0, for every model, parameter set and mass.
C2_ZeroLaw ==
    (/\ op = "satellite_occupation"
     /\ (_central \/ central_condition_inherent(cls))
     /\ IsZero(central_occupation(self, m)))
      => IsZero(ret)

\* C3: for every Poisson model cs_pairs(m) is central_occupation(m) *
\* satellite_occupation(m) without the flag and satellite_occupation(m) *
\* tracer_per_central(m) with it, on the public satellite occupation.
C3_PairLaw ==
    (cls \in PoissonClasses /\ op = "cs_pairs") =>
      ret = IF _central
            THEN Mul(satellite_occupation(self, m), _tracer_per_central(self, m))
            ELSE Mul(central_occupation(self, m), satellite_occupation(self, m))

C3_Witness ==
    /\ cls \in PoissonClasses
    /\ op = "cs_pairs"
    /\ _central
    /\ IsFin(ret)
    /\ ~IsZero(ret)
    /\ ret # Mul(central_occupation(self, m), satellite_occupation(self, m))

C5_NoCentral ==
    cls \in NoCentralClasses =>
      /\ _central = FALSE
      /\ op = "satellite_occupation" => ret = _satellite_occupation(self, m)
      /\ op \in {"nc", "cs_pairs", "central_occupation", "sigma_central"} => IsZero(ret)

C5_Witness ==
    /\ cls \in NoCentralClasses
    /\ central = TRUE
    /\ _central = FALSE
    /\ op = "satellite_occupation"
    /\ IsFin(ret)
    /\ ~IsZero(ret)

\* C6: total_occupation(m) is central_occupation(m) +
\* satellite_occupation(m) and total_pair_function(m) is ss_pairs(m) +
\* cs_pairs(m), each term being the model's public method at the same m.
C6_Additivity ==
    /\ op = "total_occupation" =>
         ret = Add(central_occupation(self, m), satellite_occupation(self, m))
    /\ op = "total_pair_function" =>
         ret = Add(ss_pairs(self, m), cs_pairs(self, m))

C6_Witness ==
    /\ op = "total_occupation"
    /\ _central
    /\ IsFin(ret)
    /\ ret # Add(central_occupation(self, m), _satellite_occupation(self, m))

\* C7: mmin is M_min itself for the models with a sharp cutoff, and for
\* every model with a smoothed central cutoff (Zheng05, Contreras13,
\* Geach12) it is strictly below M_min whenever sig_logm > 0; for Zheng05
\* it is M_min - 5 * sig_logm.
C7_MinimumMass ==
    op = "mmin" =>
      IF cls \in {"Zheng05", "Contreras13", "Geach12"}
      THEN /\ Gt(params.sig_logm, Zero) => Lt(ret, params.M_min)
           /\ cls = "Zheng05" =>
                ret = Sub(params.M_min, Mul(Fin(5, 0), params.sig_logm))
      ELSE ret = params.M_min

\* C8: every Geach12 output equals the output of Contreras13 built with
\* the same overrides but with x fixed to 1.
C8_Geach12IsContreras13WithUnitX ==
    (/\ cls = "Geach12"
     /\ op \in {"central_occupation", "satellite_occupation",
                "total_occupation", "total_pair_function"})
      => ret = Method(op, [cls |-> "Contreras13", _central |-> _central,
                           params |-> [params EXCEPT !.x = One]], m)

\* C9: with A = 10^logA, Zehavi05Marked has the nc and ns of
\* Zehavi05WithMax with the same M_min, M_1, alpha, M_max, A times its
\* total_occupation and A^2 times its total_pair_function, so that
\* total_pair_function / total_occupation^2 does not depend on logA.
Unmarked ==
    [cls |-> "Zehavi05WithMax", _central |-> _central,
     params |-> [M_min |-> params.M_min, M_1 |-> params.M_1,
                 alpha |-> params.alpha, M_max |-> params.M_max]]

Flipped == [cls |-> cls, _central |-> ~_central, params |-> params]

====
